---- MODULE Spec2Model ----
(***************************************************************************)
(* Model of cleanup_analysis/find_duplicates.py (the Duplicate Finder) and *)
(* cleanup_analysis/smart_dedup.py (the Best-Copy Selector).               *)
(*                                                                         *)
(* A string is a sequence of one-character strings.  The text of a file is *)
(* the sequence of its lines, text.split('\n') in Python's terms: the text *)
(* "a\nb\n" is <<"a", "b", "">>, the empty text is <<"">>.  The Selector    *)
(* therefore really re-parses what the Finder wrote.                       *)
(***************************************************************************)
EXTENDS Integers, Sequences, FiniteSets, TLC

VARIABLES all_files_txt, duplicates_txt, smart_cleanup_sh, answers, stdout, call

vars == <<all_files_txt, duplicates_txt, smart_cleanup_sh, answers, stdout, call>>

(***************************************************************************)
(* Bounds of the model.                                                    *)
(***************************************************************************)
MaxLines == 4
MaxTime == 2
MaxSize == 2
MaxDup == 3

(***************************************************************************)
(* Python string primitives used by both scripts.                          *)
(***************************************************************************)
NL == "\n"

Range(s) == {s[i] : i \in 1..Len(s)}

\* Code points of the characters the model uses (ASCII).
ord(c) ==
    CASE c = "\n" -> 10
      [] c = " "  -> 32
      [] c = "\"" -> 34
      [] c = "#"  -> 35
      [] c = "("  -> 40
      [] c = ")"  -> 41
      [] c = "-"  -> 45
      [] c = "/"  -> 47
      [] c = "0"  -> 48
      [] c = "1"  -> 49
      [] c = "2"  -> 50
      [] c = "3"  -> 51
      [] c = "4"  -> 52
      [] c = "5"  -> 53
      [] c = "6"  -> 54
      [] c = "7"  -> 55
      [] c = "8"  -> 56
      [] c = "9"  -> 57
      [] c = ":"  -> 58
      [] c = "="  -> 61
      [] c = "a"  -> 97
      [] c = "b"  -> 98
      [] c = "x"  -> 120
      [] OTHER    -> 128

isspace(c) == c \in {" ", "\n"}

RECURSIVE lstrip(_)
lstrip(s) ==
    IF s = <<>> THEN <<>>
    ELSE IF isspace(Head(s)) THEN lstrip(Tail(s)) ELSE s

RECURSIVE rstrip(_)
rstrip(s) ==
    IF s = <<>> THEN <<>>
    ELSE IF isspace(s[Len(s)]) THEN rstrip(SubSeq(s, 1, Len(s) - 1)) ELSE s

\* str.strip(): leading and trailing whitespace removed.
strip(s) == rstrip(lstrip(s))

RECURSIVE rfind(_, _, _)
rfind(s, c, i) ==
    IF i = 0 THEN 0
    ELSE IF s[i] = c THEN i ELSE rfind(s, c, i - 1)

\* os.path.basename (posixpath): what follows the last '/'.
basename(p) == SubSeq(p, rfind(p, "/", Len(p)) + 1, Len(p))

RECURSIVE count(_, _)
count(s, c) ==
    IF s = <<>> THEN 0
    ELSE (IF Head(s) = c THEN 1 ELSE 0) + count(Tail(s), c)

startswith(s, i, sep) ==
    /\ i + Len(sep) - 1 <= Len(s)
    /\ SubSeq(s, i, i + Len(sep) - 1) = sep

RECURSIVE splitfrom(_, _, _, _)
splitfrom(s, sep, start, i) ==
    IF i > Len(s) THEN <<SubSeq(s, start, Len(s))>>
    ELSE IF startswith(s, i, sep)
         THEN <<SubSeq(s, start, i - 1)>>
                  \o splitfrom(s, sep, i + Len(sep), i + Len(sep))
         ELSE splitfrom(s, sep, start, i + 1)

\* str.split(sep): the pieces between the leftmost non-overlapping sep's.
split(s, sep) == splitfrom(s, sep, 1, 1)

digit(d) == <<"0", "1", "2", "3", "4", "5", "6", "7", "8", "9">>[d + 1]

RECURSIVE str(_)
\* str(n) for a natural number: its decimal digits.
str(n) == IF n < 10 THEN <<digit(n)>> ELSE str(n \div 10) \o <<digit(n % 10)>>

RECURSIVE strless(_, _)
\* a < b on Python strings: lexicographic by code point.
strless(a, b) ==
    IF b = <<>> THEN FALSE
    ELSE IF a = <<>> THEN TRUE
    ELSE IF Head(a) = Head(b) THEN strless(Tail(a), Tail(b))
    ELSE ord(Head(a)) < ord(Head(b))

(***************************************************************************)
(* find_duplicates.py                                                      *)
(***************************************************************************)
\* duplicates[filename].append(filepath) on a defaultdict(list).
dict_append(d, k, v) ==
    IF k \in DOMAIN d THEN [d EXCEPT ![k] = Append(@, v)]
    ELSE [j \in DOMAIN d \cup {k} |-> IF j = k THEN <<v>> ELSE d[j]]

RECURSIVE group_lines(_, _)
\* The loop over the lines of all_files.txt.
group_lines(lines, d) ==
    IF lines = <<>> THEN d
    ELSE LET filepath == strip(Head(lines))
         IN  group_lines(Tail(lines),
                 IF filepath # <<>>
                 THEN dict_append(d, basename(filepath), filepath)
                 ELSE d)

duplicates_of(lines) == group_lines(lines, [k \in {} |-> <<>>])

RECURSIVE sorted(_)
\* sorted() over the keys of the dictionary: ascending strings.
sorted(keys) ==
    IF keys = {} THEN <<>>
    ELSE LET least == CHOOSE k \in keys : \A j \in keys \ {k} : strless(k, j)
         IN  <<least>> \o sorted(keys \ {least})

EmptyText == << <<>> >>

\* out.write(s) on a text kept as lines: the first line of s continues the
\* last line of the text, each '\n' of s starts a new line.
write(text, s) ==
    SubSeq(text, 1, Len(text) - 1) \o <<text[Len(text)] \o s[1]>> \o Tail(s)

\* f"\n=== {filename} ({len(paths)} copies) ===\n"
header_line(filename, n) ==
    << <<>>,
       <<"=", "=", "=", " ">> \o filename \o <<" ", "(">> \o str(n)
           \o <<" ", "c", "o", "p", "i", "e", "s", ")", " ", "=", "=", "=">>,
       <<>> >>

\* f"  {path}\n"
path_line(path) == << <<" ", " ">> \o path, <<>> >>

RECURSIVE write_paths(_, _)
write_paths(out, paths) ==
    IF paths = <<>> THEN out
    ELSE write_paths(write(out, path_line(Head(paths))), Tail(paths))

\* A report that also lists the basenames found once.
reported_single(paths) == Len(paths) >= 1

reported(paths) == Len(paths) > 1

RECURSIVE write_report(_, _, _)
\* The report writer: one section per group of more than one path.
write_report(out, keys, d) ==
    IF keys = <<>> THEN out
    ELSE write_report(
             IF reported(d[Head(keys)])
             THEN write_paths(write(out, header_line(Head(keys), Len(d[Head(keys)]))),
                              d[Head(keys)])
             ELSE out,
             Tail(keys), d)

\* open(name, 'a'): what the file holds is kept.
open_a(old) == old.text

\* open(name, 'w'): the file is created or truncated.
open_w(old) == EmptyText

find_duplicates(old, lines) ==
    LET d == duplicates_of(lines)
    IN  [exists |-> TRUE, text |-> write_report(open_w(old), sorted(DOMAIN d), d)]

(***************************************************************************)
(* smart_dedup.py                                                          *)
(***************************************************************************)
None == [none |-> TRUE, value |-> <<>>]

Some(v) == [none |-> FALSE, value |-> v]

digits == {"0", "1", "2", "3", "4", "5", "6", "7", "8", "9"}

\* int(s) raises ValueError unless s is a non-empty run of decimal digits.
int_raises(s) == s = <<>> \/ \E i \in 1..Len(s) : s[i] \notin digits

RECURSIVE int(_)
int(s) == IF s = <<>> THEN 0 ELSE 10 * int(SubSeq(s, 1, Len(s) - 1)) + (ord(s[Len(s)]) - 48)

\* The outcome of subprocess.run(['git', 'log', '-1', '--format=%at', path]),
\* os.path.getmtime(path) and os.path.getsize(path) for one path:
\*   run_raises  subprocess.run itself raises (git cannot be executed)
\*   returncode  git's exit status
\*   stdout      git's output
\*   mtime       -1 when os.path.getmtime raises OSError
\*   size        -1 when os.path.getsize raises OSError
supplies_commit(w) == w.returncode = 0 /\ strip(w.stdout) # <<>>

\* datetime.fromtimestamp(t): the local time of a clock that is never set
\* back, read in seconds; two of them compare as their timestamps do.
fromtimestamp(t) == t

\* Info-gathering that answers with defaults where it should answer None.
get_file_info_default(filepath, w) ==
    Some([path        |-> filepath,
          last_commit |-> IF w.run_raises \/ ~supplies_commit(w)
                          THEN (IF w.mtime = -1 THEN 0 ELSE w.mtime)
                          ELSE int(strip(w.stdout)),
          size        |-> IF w.size = -1 THEN 0 ELSE w.size,
          depth       |-> count(filepath, "/")])

get_file_info(filepath, w) ==
    IF w.run_raises THEN None
    ELSE IF supplies_commit(w) /\ int_raises(strip(w.stdout)) THEN None
    ELSE IF ~supplies_commit(w) /\ w.mtime = -1 THEN None
    ELSE IF w.size = -1 THEN None
    ELSE Some([path        |-> filepath,
               last_commit |-> IF supplies_commit(w)
                               THEN fromtimestamp(int(strip(w.stdout)))
                               ELSE fromtimestamp(w.mtime),
               size        |-> w.size,
               depth       |-> count(filepath, "/")])

RECURSIVE collect_infos(_, _)
\* The loop of choose_best_file: the infos of the paths that have one.
collect_infos(duplicates, world) ==
    IF duplicates = <<>> THEN <<>>
    ELSE LET info == get_file_info(Head(duplicates), world[Head(duplicates)])
         IN  (IF ~info.none THEN <<info.value>> ELSE <<>>)
                 \o collect_infos(Tail(duplicates), world)

\* The key with the size ascending.
sort_key_larger(x) == <<-x.depth, x.last_commit, x.size>>

sort_key(x) == <<-x.depth, x.last_commit, -x.size>>

\* Tuple comparison a < b of two sort keys.
key_less(a, b) ==
    \/ a[1] < b[1]
    \/ a[1] = b[1] /\ a[2] < b[2]
    \/ a[1] = b[1] /\ a[2] = b[2] /\ a[3] < b[3]

RECURSIVE insert_sorted(_, _)
\* x goes behind every element that does not sort after it (list.sort is stable).
insert_sorted(xs, x) ==
    IF xs = <<>> THEN <<x>>
    ELSE IF key_less(sort_key(x), sort_key(xs[Len(xs)]))
         THEN Append(insert_sorted(SubSeq(xs, 1, Len(xs) - 1), x), xs[Len(xs)])
         ELSE Append(xs, x)

RECURSIVE list_sort(_)
list_sort(xs) ==
    IF xs = <<>> THEN <<>>
    ELSE insert_sorted(list_sort(SubSeq(xs, 1, Len(xs) - 1)), xs[Len(xs)])

best_of(file_infos) == file_infos[Len(file_infos)].path

\* A choice that falls back on the first path when no path has an info.
choose_best_file_any(duplicates, world) ==
    LET file_infos == collect_infos(duplicates, world)
    IN  IF file_infos = <<>> THEN Some(Head(duplicates))
        ELSE Some(best_of(list_sort(file_infos)))

choose_best_file(duplicates, world) ==
    LET file_infos == collect_infos(duplicates, world)
    IN  IF file_infos = <<>> THEN None
        ELSE Some(best_of(list_sort(file_infos)))

RECURSIVE strip_nonblank(_)
\* [line.strip() for line in lines if line.strip()]
strip_nonblank(lines) ==
    IF lines = <<>> THEN <<>>
    ELSE (IF strip(Head(lines)) # <<>> THEN <<strip(Head(lines))>> ELSE <<>>)
             \o strip_nonblank(Tail(lines))

parse_filename(line) == strip(split(line, <<"(">>)[1])

\* Nothing is held back from removal.
to_remove_all(paths, best) == paths

RECURSIVE to_remove_first(_, _)
\* Only the first listing of the best path is held back (list.remove).
to_remove_first(paths, best) ==
    IF paths = <<>> THEN <<>>
    ELSE IF Head(paths) = best THEN Tail(paths)
    ELSE <<Head(paths)>> \o to_remove_first(Tail(paths), best)

to_remove(paths, best) == SelectSeq(paths, LAMBDA p : p # best)

\* if best: a path is truthy unless it is None or empty.
truthy(best) == ~best.none /\ best.value # <<>>

prefixed(line, prefix) ==
    Len(line) >= Len(prefix) /\ SubSeq(line, 1, Len(prefix)) = prefix

RECURSIVE split_sections(_, _)
\* content.split('\n==='): a new piece starts at every line but the first
\* that begins with "===", and holds what follows the "===".
split_sections(pieces, lines) ==
    IF lines = <<>> THEN pieces
    ELSE LET line == Head(lines)
             last == pieces[Len(pieces)]
         IN  split_sections(
                 IF prefixed(line, <<"=", "=", "=">>)
                 THEN Append(pieces, <<SubSeq(line, 4, Len(line))>>)
                 ELSE [pieces EXCEPT ![Len(pieces)] = Append(last, line)],
                 Tail(lines))

blank(line) == strip(line) = <<>>

RECURSIVE lstrip_text(_)
lstrip_text(text) ==
    IF Len(text) = 1 THEN <<lstrip(text[1])>>
    ELSE IF blank(Head(text)) THEN lstrip_text(Tail(text))
    ELSE <<lstrip(Head(text))>> \o Tail(text)

RECURSIVE rstrip_text(_)
rstrip_text(text) ==
    IF Len(text) = 1 THEN <<rstrip(text[1])>>
    ELSE IF blank(text[Len(text)]) THEN rstrip_text(SubSeq(text, 1, Len(text) - 1))
    ELSE Append(SubSeq(text, 1, Len(text) - 1), rstrip(text[Len(text)]))

\* section.strip().split('\n'): whitespace, line ends included, is taken
\* off both ends of the section; what is left is cut into lines.
strip_text(text) == rstrip_text(lstrip_text(text))

\* One section of the report: its header's name and its stripped paths.
parse_section(section) ==
    LET lines == strip_text(section)
    IN  [filename |-> parse_filename(lines[1]),
         paths    |-> strip_nonblank(Tail(lines))]

RECURSIVE parse_sections(_)
parse_sections(sections) ==
    IF sections = <<>> THEN <<>>
    ELSE <<parse_section(Head(sections))>> \o parse_sections(Tail(sections))

\* content.split('\n===')[1:], each section parsed.
sections_of(content) ==
    parse_sections(Tail(split_sections(<< <<Head(content)>> >>, Tail(content))))

RECURSIVE decide(_, _)
\* The loop over sections[1:]: a decision for each section that has a best file.
decide(sections, world) ==
    IF sections = <<>> THEN <<>>
    ELSE LET filename == Head(sections).filename
             paths    == Head(sections).paths
             best     == choose_best_file(paths, world)
         IN  (IF Len(paths) > 1 /\ truthy(best)
              THEN <<[keep     |-> best.value,
                      remove   |-> to_remove(paths, best.value),
                      filename |-> filename]>>
              ELSE <<>>)
                 \o decide(Tail(sections), world)

script_header ==
    write(<< <<"#", "!", "/", "b", "i", "n", "/", "b", "a", "s", "h">>, <<>>, <<>> >>,
          << <<"#", " ", "S", "m", "a", "r", "t", " ", "c", "l", "e", "a", "n",
               "u", "p", " ", "-", " ", "k", "e", "e", "p", "i", "n", "g", " ",
               "b", "e", "s", "t", " ", "v", "e", "r", "s", "i", "o", "n", "s">>,
             <<>>, <<>> >>)

\* f"rm -f \"{path}\"\n"
rm_line(path) == << <<"r", "m", " ", "-", "f", " ", "\"">> \o path \o <<"\"">>, <<>> >>

RECURSIVE write_rm_lines(_, _)
write_rm_lines(out, paths) ==
    IF paths = <<>> THEN out
    ELSE write_rm_lines(write(out, rm_line(Head(paths))), Tail(paths))

filename_line(decision) == << <<"#", " ">> \o decision.filename, <<>> >>

keeping_line(decision) ==
    << <<"#", " ", "K", "e", "e", "p", "i", "n", "g", ":", " ">> \o decision.keep, <<>> >>

write_decision(out, decision) ==
    write(write_rm_lines(write(write(out, filename_line(decision)),
                               keeping_line(decision)),
                         decision.remove),
          << <<>>, <<>> >>)

RECURSIVE write_decisions(_, _)
write_decisions(out, decisions) ==
    IF decisions = <<>> THEN out
    ELSE write_decisions(write_decision(out, Head(decisions)), Tail(decisions))

write_script(old, decisions) ==
    [exists |-> TRUE,
     text   |-> write_decisions(write(open_w(old), script_header), decisions)]

\* print(f"Generated smart cleanup script with {len(decisions)} decisions")
print_summary(decisions) ==
    <<"G", "e", "n", "e", "r", "a", "t", "e", "d", " ", "s", "m", "a", "r", "t",
      " ", "c", "l", "e", "a", "n", "u", "p", " ", "s", "c", "r", "i", "p", "t",
      " ", "w", "i", "t", "h", " ">> \o str(Len(decisions))
        \o <<" ", "d", "e", "c", "i", "s", "i", "o", "n", "s">>

(***************************************************************************)
(* The input lines the model draws all_files.txt from.                     *)
(***************************************************************************)
InputLines ==
    { <<" ", "x">>,
      <<"a", "/", "x">>,
      <<"a", "/", "x", "(">>,
      <<"b", "/", "x", "(">>,
      <<" ">> }

RECURSIVE SeqsUpTo(_, _)
SeqsUpTo(S, n) ==
    IF n = 0 THEN {<<>>}
    ELSE LET shorter == SeqsUpTo(S, n - 1)
         IN  shorter \cup {Append(s, e) : s \in shorter, e \in S}

NoFile == [exists |-> FALSE, text |-> EmptyText]

NoAnswers == [p \in {} |-> 0]

(***************************************************************************)
(* What git and the file system may answer for one path.                   *)
(***************************************************************************)
GitStdouts == {<<>>} \cup {str(t) \o <<NL>> : t \in 1..MaxTime}

\* When subprocess.run raises there is no exit status and no output.
FileWorlds ==
    {w \in [run_raises : BOOLEAN,
            returncode : {0, 128},
            stdout     : GitStdouts,
            mtime      : {-1} \cup (1..MaxTime),
            size       : {-1} \cup (1..MaxSize)] :
        w.run_raises => (w.returncode = 128 /\ w.stdout = <<>>)}

\* A path that is not there: git reports an error, getmtime raises.
Missing ==
    [run_raises |-> FALSE, returncode |-> 128, stdout |-> <<>>,
     mtime |-> -1, size |-> -1]

\* A file git knows: committed at t, of size s.
Tracked(t, s) ==
    [run_raises |-> FALSE, returncode |-> 0, stdout |-> str(t) \o <<NL>>,
     mtime |-> t, size |-> s]

RankingWorlds ==
    {Missing} \cup {Tracked(t, s) : t \in 1..MaxTime, s \in 1..MaxSize}

SelectorWorlds == {Missing, Tracked(1, 1)}

\* Paths of one basename, at depths 0, 1 and 1.
GroupPaths == { <<"x">>, <<"a", "/", "x">>, <<"b", "/", "x">> }

InfoPaths == (GroupPaths \cup {strip(l) : l \in InputLines}) \ {<<>>}

RECURSIVE queried(_)
\* The paths the Selector asks about: those of the sections it ranks.
queried(sections) ==
    IF sections = <<>> THEN {}
    ELSE (IF Len(Head(sections).paths) > 1 THEN Range(Head(sections).paths) ELSE {})
             \cup queried(Tail(sections))

(***************************************************************************)
(* The two scripts, each run as a whole.                                   *)
(***************************************************************************)
Init ==
    /\ all_files_txt \in SeqsUpTo(InputLines, MaxLines)
    /\ duplicates_txt = NoFile
    /\ smart_cleanup_sh = NoFile
    /\ answers = NoAnswers
    /\ stdout = <<>>
    /\ call = [fn |-> "none"]

RunFinder ==
    /\ duplicates_txt' = find_duplicates(duplicates_txt, all_files_txt)
    /\ UNCHANGED <<all_files_txt, smart_cleanup_sh, answers, stdout, call>>

\* The file system and git do not change while the model runs: the first run
\* of the Selector draws their answers, a later run hears the same ones.
\* open('./cleanup_analysis/duplicates.txt', 'r') raises when the report is
\* not there: the script stops before it writes anything.
RunSelector ==
    /\ duplicates_txt.exists
    /\ LET sections == sections_of(duplicates_txt.text)
       IN  \E world \in IF smart_cleanup_sh.exists THEN {answers}
                        ELSE [queried(sections) -> SelectorWorlds] :
               LET decisions == decide(sections, world)
               IN  /\ smart_cleanup_sh' = write_script(smart_cleanup_sh, decisions)
                   /\ stdout' = print_summary(decisions)
                   /\ answers' = world
    /\ UNCHANGED <<all_files_txt, duplicates_txt, call>>

Next == RunFinder \/ RunSelector

Spec == Init /\ [][Next]_vars

(***************************************************************************)
(* get_file_info and choose_best_file, applied to bounded arguments.       *)
(***************************************************************************)
NoCall ==
    /\ all_files_txt = <<>>
    /\ duplicates_txt = NoFile
    /\ smart_cleanup_sh = NoFile
    /\ answers = NoAnswers
    /\ stdout = <<>>

InitInfo ==
    /\ NoCall
    /\ \E filepath \in InfoPaths, w \in FileWorlds :
           call = [fn |-> "get_file_info", filepath |-> filepath, world |-> w,
                   returned |-> FALSE, ret |-> None]

CallGetFileInfo ==
    /\ ~call.returned
    /\ call' = [call EXCEPT !.returned = TRUE,
                            !.ret = get_file_info(call.filepath, call.world)]
    /\ UNCHANGED <<all_files_txt, duplicates_txt, smart_cleanup_sh, answers, stdout>>

NextInfo == CallGetFileInfo

SpecInfo == InitInfo /\ [][NextInfo]_vars

InitChoose ==
    /\ NoCall
    /\ \E duplicates \in SeqsUpTo(GroupPaths, MaxDup) :
           /\ Len(duplicates) > 1
           /\ \E world \in [Range(duplicates) -> RankingWorlds] :
                  call = [fn |-> "choose_best_file", duplicates |-> duplicates,
                          world |-> world, returned |-> FALSE, ret |-> None]

CallChooseBestFile ==
    /\ ~call.returned
    /\ call' = [call EXCEPT !.returned = TRUE,
                            !.ret = choose_best_file(call.duplicates, call.world)]
    /\ UNCHANGED <<all_files_txt, duplicates_txt, smart_cleanup_sh, answers, stdout>>

NextChoose == CallChooseBestFile

SpecChoose == InitChoose /\ [][NextChoose]_vars

(***************************************************************************)
(* Reading the two artifacts back, as a person reading them would.         *)
(***************************************************************************)
RECURSIVE PathsAfter(_, _)
\* The indented path lines from line j on.
PathsAfter(text, j) ==
    IF j > Len(text) \/ ~prefixed(text[j], <<" ", " ">>) THEN <<>>
    ELSE <<SubSeq(text[j], 3, Len(text[j]))>> \o PathsAfter(text, j + 1)

IsHeader(line) == prefixed(line, <<"=", "=", "=", " ">>)

\* "=== <name> (<count> copies) ===": the count stands behind the last "(".
HeaderName(line) == SubSeq(line, 5, rfind(line, "(", Len(line)) - 2)

HeaderCount(line) == int(SubSeq(line, rfind(line, "(", Len(line)) + 1, Len(line) - 12))

RECURSIVE ReportGroupsFrom(_, _)
ReportGroupsFrom(text, i) ==
    IF i > Len(text) THEN <<>>
    ELSE (IF IsHeader(text[i])
          THEN <<[name  |-> HeaderName(text[i]),
                  count |-> HeaderCount(text[i]),
                  paths |-> PathsAfter(text, i + 1)]>>
          ELSE <<>>)
             \o ReportGroupsFrom(text, i + 1)

\* The sections of the report, in order.
ReportGroups == ReportGroupsFrom(duplicates_txt.text, 1)

RmPrefix == <<"r", "m", " ", "-", "f", " ", "\"">>

RECURSIVE RmAfter(_, _)
\* The paths of the rm lines from line j on.
RmAfter(text, j) ==
    IF j > Len(text) \/ ~prefixed(text[j], RmPrefix) THEN <<>>
    ELSE <<SubSeq(text[j], 8, Len(text[j]) - 1)>> \o RmAfter(text, j + 1)

RECURSIVE ScriptBlocksFrom(_, _)
ScriptBlocksFrom(text, i) ==
    IF i + 1 > Len(text) \/ ~prefixed(text[i], <<"#", " ">>) THEN <<>>
    ELSE LET rm == RmAfter(text, i + 2)
         IN  <<[label |-> SubSeq(text[i], 3, Len(text[i])),
                keep  |-> SubSeq(text[i + 1], 12, Len(text[i + 1])),
                rm    |-> rm]>>
                 \o ScriptBlocksFrom(text, i + Len(rm) + 3)

\* The blocks of the script behind its four header lines, in order.
ScriptBlocks == ScriptBlocksFrom(smart_cleanup_sh.text, 5)

\* The number in "Generated smart cleanup script with <n> decisions".
PrintedDecisions == int(SubSeq(stdout, 37, Len(stdout) - 10))

\* Info-gathering fails for a path: git cannot be run, or a file attribute
\* that is needed cannot be read.
InfoFails(w) ==
    \/ w.run_raises
    \/ w.size = -1
    \/ ~(w.returncode = 0 /\ strip(w.stdout) # <<>>) /\ w.mtime = -1

AllFail(g) == \A p \in Range(g.paths) : InfoFails(answers[p])

\* The report groups with a path whose info-gathering succeeds.
LiveGroups == SelectSeq(ReportGroups, LAMBDA g : ~AllFail(g))

\* The non-blank input lines, stripped.
InputPaths == strip_nonblank(all_files_txt)

Occurrences(b) == Cardinality({i \in 1..Len(InputPaths) : basename(InputPaths[i]) = b})

InputBasenames == {basename(InputPaths[i]) : i \in 1..Len(InputPaths)}

Times(p, paths) == Cardinality({i \in 1..Len(paths) : paths[i] = p})

(***************************************************************************)
(* The claims.                                                             *)
(***************************************************************************)

\* C1 as stated: every group of the report has a block in the script with
\* exactly count - 1 rm lines and one kept path that is not among them.
ScriptRemovesAllButOne ==
    smart_cleanup_sh.exists =>
        LET groups == ReportGroups
            blocks == ScriptBlocks
        IN  /\ Len(blocks) = Len(groups)
            /\ \A i \in 1..Len(groups) :
                   /\ i <= Len(blocks)
                   /\ Len(blocks[i].rm) = groups[i].count - 1
                   /\ blocks[i].keep \notin Range(blocks[i].rm)

\* C1 amended: every group of the report with a path whose info-gathering
\* succeeds has one block; the block keeps one path of the group, its rm lines
\* are the group's other listed paths in order, the kept path is not among
\* them, and they number count - k, k the times the kept path is listed.
\* A group whose paths all fail has no block.
ScriptRemovesTheOthers ==
    smart_cleanup_sh.exists =>
        LET live   == LiveGroups
            blocks == ScriptBlocks
        IN  /\ Len(blocks) = Len(live)
            /\ \A i \in 1..Len(live) :
                   /\ i <= Len(blocks)
                   /\ blocks[i].keep \in Range(live[i].paths)
                   /\ blocks[i].keep \notin Range(blocks[i].rm)
                   /\ blocks[i].rm = SelectSeq(live[i].paths, LAMBDA p : p # blocks[i].keep)
                   /\ Len(blocks[i].rm) = live[i].count - Times(blocks[i].keep, live[i].paths)

\* A script with a block that removes two paths, next to a group that was
\* dropped.
ScriptRemovesTheOthersWitness ==
    /\ smart_cleanup_sh.exists
    /\ \E i \in 1..Len(ScriptBlocks) : Len(ScriptBlocks[i].rm) = 1
    /\ Len(LiveGroups) < Len(ReportGroups)

\* C2: the report has exactly one section for each basename on more than one
\* input line, none for a basename on one line, and each header's count is
\* the number of paths listed under it.
ReportHasTheRepeatedBasenames ==
    duplicates_txt.exists =>
        LET groups == ReportGroups
        IN  /\ \A b \in InputBasenames :
                   Cardinality({i \in 1..Len(groups) : groups[i].name = b})
                       = IF Occurrences(b) > 1 THEN 1 ELSE 0
            /\ \A i \in 1..Len(groups) :
                   /\ groups[i].name \in InputBasenames
                   /\ groups[i].count = Len(groups[i].paths)
                   /\ groups[i].count = Occurrences(groups[i].name)

\* A report of an input with a repeated basename, a basename that occurs
\* once and a blank line.
ReportHasTheRepeatedBasenamesWitness ==
    /\ duplicates_txt.exists
    /\ Len(ReportGroups) >= 1
    /\ \E b \in InputBasenames : Occurrences(b) = 1
    /\ Len(InputPaths) < Len(all_files_txt)

\* C3: a group whose paths all fail info-gathering gets no decision: none of
\* its paths is kept or removed, the script has a block for the other groups
\* only, and the printed number counts the other groups only.
AllFailGroupIsDropped ==
    smart_cleanup_sh.exists =>
        LET groups == ReportGroups
            blocks == ScriptBlocks
            live   == Cardinality({i \in 1..Len(groups) : ~AllFail(groups[i])})
        IN  /\ \A i \in 1..Len(groups) :
                   AllFail(groups[i]) =>
                       \A p \in Range(groups[i].paths), j \in 1..Len(blocks) :
                           /\ p # blocks[j].keep
                           /\ p \notin Range(blocks[j].rm)
            /\ Len(blocks) = live
            /\ PrintedDecisions = live

\* A script made from a report with a group whose paths all failed and a
\* group that has a decision.
AllFailGroupIsDroppedWitness ==
    /\ smart_cleanup_sh.exists
    /\ \E i \in 1..Len(ReportGroups) : AllFail(ReportGroups[i])
    /\ Len(ScriptBlocks) >= 1
    /\ PrintedDecisions = 1

\* C6 as stated: no path is listed twice in a group of the report.
GroupPathsAreDistinct ==
    duplicates_txt.exists =>
        LET groups == ReportGroups
        IN  \A i \in 1..Len(groups) :
                \A j, k \in 1..Len(groups[i].paths) :
                    j # k => groups[i].paths[j] # groups[i].paths[k]

\* C7 as stated: the '# <basename>' comment of every block is the basename
\* the Finder grouped its paths under, and '# Keeping:' names the chosen path.
LabelIsTheBasename ==
    smart_cleanup_sh.exists =>
        LET live   == LiveGroups
            blocks == ScriptBlocks
        IN  \A i \in 1..Len(blocks) :
                /\ i <= Len(live)
                /\ blocks[i].label = live[i].name
                /\ blocks[i].label = basename(blocks[i].keep)
                /\ blocks[i].keep = choose_best_file(live[i].paths, answers).value

\* C9: in the whole script no kept path is in an rm line, and no path is in
\* the rm lines of two blocks.
NoKeptPathIsRemoved ==
    smart_cleanup_sh.exists =>
        LET blocks == ScriptBlocks
        IN  \A i, j \in 1..Len(blocks) :
                /\ blocks[i].keep \notin Range(blocks[j].rm)
                /\ i # j => Range(blocks[i].rm) \cap Range(blocks[j].rm) = {}

\* A script with two blocks that both remove something.
NoKeptPathIsRemovedWitness ==
    /\ smart_cleanup_sh.exists
    /\ Len(ScriptBlocks) = 2
    /\ \A i \in 1..Len(ScriptBlocks) : Len(ScriptBlocks[i].rm) >= 1

\* C10: in a group with a path whose info-gathering succeeds, every path
\* whose info-gathering failed is in an rm line of the group's block.
FailedPathsAreRemoved ==
    smart_cleanup_sh.exists =>
        LET live   == LiveGroups
            blocks == ScriptBlocks
        IN  \A i \in 1..Len(live) :
                /\ i <= Len(blocks)
                /\ \A p \in Range(live[i].paths) :
                       InfoFails(answers[p]) => p \in Range(blocks[i].rm)

\* A script for a group of which one path failed and one did not.
FailedPathsAreRemovedWitness ==
    /\ smart_cleanup_sh.exists
    /\ \E i \in 1..Len(LiveGroups) :
           /\ i <= Len(ScriptBlocks)
           /\ \E p \in Range(LiveGroups[i].paths) :
                  InfoFails(answers[p]) /\ p \in Range(ScriptBlocks[i].rm)

\* C5: a run of the Finder on an unchanged input leaves an existing report
\* as it is, and a run of the Selector on an unchanged report with unchanged
\* answers leaves an existing script as it is.
RerunIsIdempotent ==
    [][/\ (duplicates_txt.exists /\ all_files_txt' = all_files_txt)
              => duplicates_txt' = duplicates_txt
       /\ (smart_cleanup_sh.exists /\ duplicates_txt' = duplicates_txt
               /\ answers' = answers)
              => smart_cleanup_sh' = smart_cleanup_sh]_vars

\* Both artifacts written, neither of them trivial; both scripts can run again.
RerunIsIdempotentWitness ==
    /\ duplicates_txt.exists
    /\ smart_cleanup_sh.exists
    /\ Len(ReportGroups) = 2
    /\ Len(ScriptBlocks) = 1

TimeIsCommitOrMtime ==
    (call.returned /\ call.world.mtime # -1 /\ call.world.size # -1) =>
        /\ ~call.ret.none
        /\ call.ret.value.last_commit =
               IF /\ ~call.world.run_raises
                  /\ call.world.returncode = 0
                  /\ strip(call.world.stdout) # <<>>
               THEN fromtimestamp(int(strip(call.world.stdout)))
               ELSE fromtimestamp(call.world.mtime)
====
